---- MODULE Spec2Model ----
(***************************************************************************)
(* State-machine model of voice_bridge/server.py: the startup hook         *)
(* `lifespan` that loads the VibeVoice model into the module-level         *)
(* variable `model`, and the POST /tts handler `generate_speech`.          *)
(*                                                                         *)
(* Values of the external collaborators are modelled by what the handler   *)
(* observes of them:                                                       *)
(*   - an audio value is a record [kind, dtype, shape, order, data,        *)
(*     cpuOk, flatOk]: kind "tensor" has a .cpu attribute, kind "ndarray"  *)
(*     has .shape and .flatten only, kind "object" has neither; `data` is  *)
(*     the array's memory, laid out in C (row-major) or F (column-major)   *)
(*     order as `order` says;                                              *)
(*   - a sample rate is a record [kind, v]: a Python int or a float;       *)
(*   - a failing call raises a subclass of Exception.                      *)
(***************************************************************************)
EXTENDS Integers, Sequences, FiniteSets

(* ------------------------------ bounds -------------------------------- *)

\* request slots that can be open at the same time
NumReqs == 2
\* largest length of one axis of a model-produced audio value
MaxLen == 2
\* largest number of channels (leading axis) of a model-produced audio value
MaxChan == 2
\* largest small sample rate a model returns (besides the default one)
MaxRate == 2

(* ------------------------- program constants -------------------------- *)

\* server.py:63   sr = 24000
DefaultRate == 24000

\* server.py:57   speaker: str = "Carter"
DefaultSpeaker == "Carter"

\* server.py:17   model = None
ModelNone == "None"

\* the object VibeVoice.from_pretrained returns (server.py:39)
ModelOnCpu == "VibeVoice@cpu"

\* the object model.cuda() returns (server.py:41)
ModelOnCuda == "VibeVoice@cuda"

(* ------------------------------ values -------------------------------- *)

IntRate(n) == [kind |-> "int", v |-> n]

FloatRate(n) == [kind |-> "float", v |-> n]

\* a local name that is not bound yet
NoRate == [kind |-> "unbound", v |-> 0]

RECURSIVE Size(_)
\* number of elements of an array of the given shape
Size(shape) == IF shape = <<>> THEN 1 ELSE Head(shape) * Size(Tail(shape))

RECURSIVE IndexSet(_)
\* the index tuples of an array of the given shape
IndexSet(shape) ==
  IF shape = <<>> THEN {<<>>}
  ELSE {<<i>> \o rest : i \in 1..Head(shape), rest \in IndexSet(Tail(shape))}

RECURSIVE OffsetC(_, _)
\* 0-based memory offset of the element at idx, last axis varying fastest
OffsetC(idx, shape) ==
  IF idx = <<>> THEN 0
  ELSE (Head(idx) - 1) * Size(Tail(shape)) + OffsetC(Tail(idx), Tail(shape))

RECURSIVE OffsetF(_, _)
\* 0-based memory offset of the element at idx, first axis varying fastest
OffsetF(idx, shape) ==
  IF idx = <<>> THEN 0
  ELSE (Head(idx) - 1) + Head(shape) * OffsetF(Tail(idx), Tail(shape))

\* a[idx]
Element(a, idx) ==
  a.data[1 + (IF a.order = "C" THEN OffsetC(idx, a.shape)
                               ELSE OffsetF(idx, a.shape))]

RECURSIVE Stamp(_)
\* a sample value that names its own position: a[1,2] is 12
Stamp(idx) ==
  IF idx = <<>> THEN 0
  ELSE 10 * Stamp(SubSeq(idx, 1, Len(idx) - 1)) + idx[Len(idx)]

\* the index tuple stored at memory position k of an array laid out in `order`
IndexAt(k, shape, order) ==
  CHOOSE idx \in IndexSet(shape) :
    k = 1 + (IF order = "C" THEN OffsetC(idx, shape) ELSE OffsetF(idx, shape))

NoAudio ==
  [kind |-> "unbound", dtype |-> "none", shape |-> <<>>, order |-> "C",
   data |-> <<>>, cpuOk |-> TRUE, flatOk |-> TRUE]

\* a value with neither .cpu nor .shape (a list, None, ...)
PlainObject ==
  [kind |-> "object", dtype |-> "none", shape |-> <<>>, order |-> "C",
   data |-> <<>>, cpuOk |-> TRUE, flatOk |-> TRUE]

\* an array whose element at idx is Stamp(idx), stored in the given order
Array(kind, dtype, shape, order) ==
  [kind |-> kind, dtype |-> dtype, shape |-> shape, order |-> order,
   data |-> [k \in 1..Size(shape) |-> Stamp(IndexAt(k, shape, order))],
   cpuOk |-> TRUE, flatOk |-> TRUE]

\* np.zeros(n, dtype=np.float32) for an int n >= 0
Zeros(n) ==
  [kind |-> "ndarray", dtype |-> "float32", shape |-> <<n>>, order |-> "C",
   data |-> [k \in 1..n |-> 0], cpuOk |-> TRUE, flatOk |-> TRUE]

\* np.zeros(sr) raises TypeError for a float and ValueError for a negative int
ZerosRaises(sr) == sr.kind # "int" \/ sr.v < 0

(* --------------------------- request values --------------------------- *)

Texts == {"", "hello"}

Speakers == {"Carter", "Emma"}

\* the JSON body carries no "speaker" key
Absent == "<absent>"

SpeakerFields == Speakers \cup {Absent}

\* class TTSRequest: text is required, speaker defaults to "Carter"
TTSRequest(text, field) ==
  [text |-> text, speaker |-> IF field = Absent THEN DefaultSpeaker ELSE field]

NoReq == [text |-> "", speaker |-> ""]

(* ------------------------ what the model returns ---------------------- *)

AudioShapes ==
  {<<>>} \cup {<<n>> : n \in 0..MaxLen}
         \cup {<<c, n>> : c \in 1..MaxChan, n \in 1..MaxLen}
         \cup {<<c, n, 2>> : c \in 1..MaxChan, n \in 1..MaxLen}

ModelRates ==
  {IntRate(n) : n \in (1..MaxRate) \cup {-1, DefaultRate}}
    \cup {FloatRate(DefaultRate)}

\* C-contiguous arrays of every shape, transposed (F-order) ones of the
\* shapes with several axes, an unsupported dtype, a value that is no array,
\* and arrays whose .cpu() or .flatten() raises
Audios ==
  {Array(k, "float32", s, "C") : k \in {"tensor", "ndarray"}, s \in AudioShapes}
    \cup {Array(k, "float32", s, "F") :
            k \in {"tensor", "ndarray"}, s \in {t \in AudioShapes : Len(t) > 1}}
    \cup {Array("tensor", "float16", <<MaxLen>>, "C"),
          Array("ndarray", "complex64", <<MaxLen>>, "C"),
          PlainObject,
          [Array("tensor", "float32", <<MaxLen>>, "C") EXCEPT !.cpuOk = FALSE],
          [Array("ndarray", "float32", <<MaxChan, MaxLen>>, "C") EXCEPT !.flatOk = FALSE]}

\* form "pair": a tuple (audio, rate); "triple": a tuple of another length;
\* "bare": anything that is not a tuple
Pair(a, rate) == [form |-> "pair", audio |-> a, rate |-> rate]

Bare(a) == [form |-> "bare", audio |-> a, rate |-> NoRate]

Triple == [form |-> "triple", audio |-> NoAudio, rate |-> NoRate]

NoOutput == [form |-> "none", audio |-> NoAudio, rate |-> NoRate]

Outputs ==
  {Pair(a, rate) : a \in Audios, rate \in ModelRates}
    \cup {Bare(a) : a \in Audios} \cup {Triple}

\* the outcome of one model.generate call: it raises, or returns an output
Raised == [raises |-> TRUE, output |-> NoOutput]

Returned(o) == [raises |-> FALSE, output |-> o]

NoGen == [raises |-> FALSE, output |-> NoOutput]

Gens == {Raised} \cup {Returned(o) : o \in Outputs}

\* the outcomes drawn when requests overlap
ConcGens ==
  {Raised,
   Returned(Pair(PlainObject, IntRate(MaxRate))),
   Returned(Pair(Array("tensor", "float32", <<MaxChan, MaxLen>>, "F"), IntRate(1))),
   Returned(Bare(Array("ndarray", "float32", <<MaxLen>>, "C"))),
   Returned(Bare(Array("ndarray", "float32", <<>>, "C")))}

ConcTexts == {"hello"}

ConcFields == {Absent}

(* ------------------- the steps of generate_speech --------------------- *)

\* `not model` (server.py:65)
ModelMissing(m) == m = ModelNone

\* mutant of MockAudio: one sample short of a second
MockAudioShort(rate) == Zeros(rate.v - 1)

\* np.zeros(sr, dtype=np.float32) on the model-not-loaded branch (server.py:67)
MockAudio(rate) == Zeros(rate.v)

\* isinstance(output, tuple) (server.py:75)
IsTuple(output) == output.form \in {"pair", "triple"}

\* `audio, sr = output` raises ValueError unless the tuple has two items
UnpackRaises(output) == output.form = "triple"

\* the value bound to `audio` by lines 75-78
UnpackAudio(output) == output.audio

\* mutant of UnpackSr: the model's rate is dropped
KeepSr(output, rate) == rate

\* the value bound to `sr` by lines 75-78: the model's rate for a tuple,
\* the value it already had otherwise
UnpackSr(output, rate) == IF IsTuple(output) THEN output.rate ELSE rate

\* hasattr(audio, "cpu") (server.py:81)
HasCpu(a) == a.kind = "tensor"

\* audio.cpu().float().numpy(): same elements, a float32 ndarray
ToHost(a) == [a EXCEPT !.kind = "ndarray", !.dtype = "float32"]

\* audio.shape exists (server.py:85 raises AttributeError when it does not)
HasShape(a) == a.kind \in {"tensor", "ndarray"}

\* len(audio.shape) > 1 (server.py:85)
NeedsFlatten(a) == Len(a.shape) > 1

RECURSIVE Unravel(_, _)
\* the index tuple of the element at 0-based position n in C order
Unravel(n, shape) ==
  IF shape = <<>> THEN <<>>
  ELSE LET inner == Size(Tail(shape))
       IN  <<(n \div inner) + 1>> \o Unravel(n % inner, Tail(shape))

\* ndarray.flatten(): a 1-D C-contiguous copy, elements in row-major order
Flatten(a) ==
  [a EXCEPT !.shape = <<Size(a.shape)>>,
            !.order = "C",
            !.data = [k \in 1..Size(a.shape) |->
                        Element(a, Unravel(k - 1, a.shape))]]

\* mutant of FallbackAudio: the length is the default rate, not `sr`
FallbackAudioDefault(rate) == Zeros(DefaultRate)

\* np.zeros(sr, dtype=np.float32) in the except block (server.py:91)
FallbackAudio(rate) == Zeros(rate.v)

\* sf.write(buffer, audio, sr, format="WAV") raises: the data is not 1-D or
\* 2-D, its dtype is not one libsndfile writes, or the rate is not an int >= 0
SfWriteRaises(a, rate) ==
  \/ Len(a.shape) \notin {1, 2}
  \/ a.dtype \notin {"float32", "float64", "int16", "int32"}
  \/ rate.kind # "int"
  \/ rate.v < 0

\* what sf.write puts in the buffer: one channel for 1-D data
WavOf(a, rate) ==
  [channels |-> IF Len(a.shape) = 1 THEN 1 ELSE a.shape[2],
   samplerate |-> rate.v,
   frames |-> a.shape[1]]

\* Response(content=buffer.read(), media_type="audio/wav") (server.py:98)
OkResponse(wav) == [status |-> 200, media |-> "audio/wav", wav |-> wav]

NoResponse == [status |-> 0, media |-> "", wav |-> [channels |-> 0, samplerate |-> 0, frames |-> 0]]

\* mutant of MockLine: the line also carries the speaker
MockLineWithSpeaker(rq) ==
  [tag |-> "Mocking (Model not loaded)", text |-> <<rq.text>>,
   speaker |-> <<rq.speaker>>, error |-> <<>>]

\* print(f"Mocking (Model not loaded): {req.text}") (server.py:66)
MockLine(rq) ==
  [tag |-> "Mocking (Model not loaded)", text |-> <<rq.text>>,
   speaker |-> <<>>, error |-> <<>>]

\* print(f"Generating ({req.speaker}): {req.text}") (server.py:69)
GeneratingLine(rq) ==
  [tag |-> "Generating", text |-> <<rq.text>>,
   speaker |-> <<rq.speaker>>, error |-> <<>>]

\* print(f"Generation Error: {e}") (server.py:89)
ErrorLine(e) ==
  [tag |-> "Generation Error", text |-> <<>>, speaker |-> <<>>, error |-> <<e>>]

\* mutant of HandlerModel: the handler drops the model
HandlerModelReset(m) == ModelNone

\* generate_speech declares `global model` (server.py:62) and never assigns it
HandlerModel(m) == m

(* ------------------------------ state --------------------------------- *)

VARIABLES
  lifePc,      \* where the lifespan hook is
  device,      \* lifespan's local `device`
  model,       \* the module-level `model`
  loadFailed,  \* a step of the try block of lifespan raised
  pc,          \* per request slot: where generate_speech is
  req,         \* per slot: the TTSRequest
  sr,          \* per slot: the local `sr`
  audio,       \* per slot: the local `audio`
  output,      \* per slot: the local `output`
  exc,         \* per slot: the exception in flight, "none" when there is none
  gen,         \* per slot: what this invocation's model.generate call did
  calls,       \* per slot: how many times this invocation called model.generate
  path,        \* per slot: the branch taken: degraded, normal or fallback
  log,         \* per slot: the lines this invocation printed
  resp         \* per slot: the Response the invocation returned

vars ==
  <<lifePc, device, model, loadFailed, pc, req, sr, audio, output, exc, gen,
    calls, path, log, resp>>

startupVars == <<lifePc, device, model, loadFailed>>

slotVars == <<pc, req, sr, audio, output, exc, gen, calls, path, log, resp>>

Reqs == 1..NumReqs

Init ==
  /\ lifePc = "import"
  /\ device = "unset"
  /\ model = ModelNone
  /\ loadFailed = FALSE
  /\ pc = [r \in Reqs |-> "idle"]
  /\ req = [r \in Reqs |-> NoReq]
  /\ sr = [r \in Reqs |-> NoRate]
  /\ audio = [r \in Reqs |-> NoAudio]
  /\ output = [r \in Reqs |-> NoOutput]
  /\ exc = [r \in Reqs |-> "none"]
  /\ gen = [r \in Reqs |-> NoGen]
  /\ calls = [r \in Reqs |-> 0]
  /\ path = [r \in Reqs |-> "none"]
  /\ log = [r \in Reqs |-> <<>>]
  /\ resp = [r \in Reqs |-> NoResponse]

(* ------------------------------ lifespan ------------------------------- *)

\* from vibevoice import VibeVoice (server.py:25)
Import ==
  /\ lifePc = "import"
  /\ \E ok \in BOOLEAN :
       IF ok THEN lifePc' = "device" /\ UNCHANGED loadFailed
             ELSE lifePc' = "except" /\ loadFailed' = TRUE
  /\ UNCHANGED <<device, model>>
  /\ UNCHANGED slotVars

\* torch.cuda.is_available() and the choice of device (server.py:27-33)
DeviceQuery ==
  /\ lifePc = "device"
  /\ \E res \in {"cuda", "cpu", "raise"} :
       IF res = "raise"
       THEN lifePc' = "except" /\ loadFailed' = TRUE /\ UNCHANGED device
       ELSE lifePc' = "load" /\ device' = res /\ UNCHANGED loadFailed
  /\ UNCHANGED model
  /\ UNCHANGED slotVars

\* model = VibeVoice.from_pretrained(...) (server.py:39)
FromPretrained ==
  /\ lifePc = "load"
  /\ \E ok \in BOOLEAN :
       IF ok
       THEN /\ model' = ModelOnCpu
            /\ lifePc' = IF device = "cuda" THEN "cuda" ELSE "loaded"
            /\ UNCHANGED loadFailed
       ELSE lifePc' = "except" /\ loadFailed' = TRUE /\ UNCHANGED model
  /\ UNCHANGED device
  /\ UNCHANGED slotVars

\* model = model.cuda() (server.py:41)
ToCuda ==
  /\ lifePc = "cuda"
  /\ \E ok \in BOOLEAN :
       IF ok
       THEN model' = ModelOnCuda /\ lifePc' = "loaded" /\ UNCHANGED loadFailed
       ELSE lifePc' = "except" /\ loadFailed' = TRUE /\ UNCHANGED model
  /\ UNCHANGED device
  /\ UNCHANGED slotVars

\* the success print, then yield (server.py:43, 49)
LoadedOk ==
  /\ lifePc = "loaded"
  /\ lifePc' = "serving"
  /\ UNCHANGED <<device, model, loadFailed>>
  /\ UNCHANGED slotVars

\* the except block's prints, then yield (server.py:44-49)
LoadError ==
  /\ lifePc = "except"
  /\ lifePc' = "serving"
  /\ UNCHANGED <<device, model, loadFailed>>
  /\ UNCHANGED slotVars

Startup == Import \/ DeviceQuery \/ FromPretrained \/ ToCuda \/ LoadedOk \/ LoadError

(* --------------------------- generate_speech --------------------------- *)

\* mutant of LocalSr: one `sr` shared by every invocation
SharedSr(r) == sr[1]

\* the local `sr` of invocation r (server.py:63: every call has its own)
LocalSr(r) == sr[r]

\* no invocation is between its first and its last statement
Quiet == \A q \in Reqs : pc[q] = "idle"

\* a statement inside the try block raises e: control goes to the except block
Throw(r, e) ==
  /\ exc' = [exc EXCEPT ![r] = e]
  /\ pc' = [pc EXCEPT ![r] = "except"]

\* a request is handed to generate_speech; sr = 24000 (server.py:61-63)
Arrive(r, texts, fields) ==
  /\ lifePc = "serving"
  /\ pc[r] = "idle"
  /\ \E t \in texts, f \in fields : req' = [req EXCEPT ![r] = TTSRequest(t, f)]
  /\ sr' = [sr EXCEPT ![r] = IntRate(DefaultRate)]
  /\ pc' = [pc EXCEPT ![r] = "branch"]
  /\ model' = HandlerModel(model)
  /\ UNCHANGED <<lifePc, device, loadFailed>>
  /\ UNCHANGED <<audio, output, exc, gen, calls, path, log, resp>>

\* the model-not-loaded branch (server.py:65-67)
Mock(r) ==
  /\ pc[r] = "branch"
  /\ ModelMissing(model)
  /\ log' = [log EXCEPT ![r] = Append(@, MockLine(req[r]))]
  /\ audio' = [audio EXCEPT ![r] = MockAudio(LocalSr(r))]
  /\ path' = [path EXCEPT ![r] = "degraded"]
  /\ pc' = [pc EXCEPT ![r] = "encode"]
  /\ model' = HandlerModel(model)
  /\ UNCHANGED <<lifePc, device, loadFailed>>
  /\ UNCHANGED <<req, sr, output, exc, gen, calls, resp>>

\* the else branch up to the try (server.py:68-70)
Announce(r) ==
  /\ pc[r] = "branch"
  /\ ~ModelMissing(model)
  /\ log' = [log EXCEPT ![r] = Append(@, GeneratingLine(req[r]))]
  /\ path' = [path EXCEPT ![r] = "normal"]
  /\ pc' = [pc EXCEPT ![r] = "generate"]
  /\ model' = HandlerModel(model)
  /\ UNCHANGED <<lifePc, device, loadFailed>>
  /\ UNCHANGED <<req, sr, audio, output, exc, gen, calls, resp>>

\* output = model.generate(req.text, speaker_name=req.speaker) (server.py:72)
GenerateCall(r, gens) ==
  /\ pc[r] = "generate"
  /\ calls' = [calls EXCEPT ![r] = @ + 1]
  /\ \E g \in gens :
       /\ gen' = [gen EXCEPT ![r] = g]
       /\ IF g.raises
          THEN Throw(r, "generate") /\ UNCHANGED output
          ELSE /\ output' = [output EXCEPT ![r] = g.output]
               /\ pc' = [pc EXCEPT ![r] = "unpack"]
               /\ UNCHANGED exc
  /\ model' = HandlerModel(model)
  /\ UNCHANGED <<lifePc, device, loadFailed>>
  /\ UNCHANGED <<req, sr, audio, path, log, resp>>

\* the isinstance test and the two assignments (server.py:75-78)
Unpack(r) ==
  /\ pc[r] = "unpack"
  /\ IF IsTuple(output[r]) /\ UnpackRaises(output[r])
     THEN Throw(r, "unpack") /\ UNCHANGED <<audio, sr>>
     ELSE /\ audio' = [audio EXCEPT ![r] = UnpackAudio(output[r])]
          /\ sr' = [sr EXCEPT ![r] = UnpackSr(output[r], LocalSr(r))]
          /\ pc' = [pc EXCEPT ![r] = "tohost"]
          /\ UNCHANGED exc
  /\ model' = HandlerModel(model)
  /\ UNCHANGED <<lifePc, device, loadFailed>>
  /\ UNCHANGED <<req, output, gen, calls, path, log, resp>>

\* if hasattr(audio, "cpu"): audio = audio.cpu().float().numpy() (server.py:81-82)
HostTransfer(r) ==
  /\ pc[r] = "tohost"
  /\ IF HasCpu(audio[r])
     THEN IF audio[r].cpuOk
          THEN /\ audio' = [audio EXCEPT ![r] = ToHost(@)]
               /\ pc' = [pc EXCEPT ![r] = "flatten"]
               /\ UNCHANGED exc
          ELSE Throw(r, "cpu") /\ UNCHANGED audio
     ELSE /\ pc' = [pc EXCEPT ![r] = "flatten"]
          /\ UNCHANGED <<audio, exc>>
  /\ model' = HandlerModel(model)
  /\ UNCHANGED <<lifePc, device, loadFailed>>
  /\ UNCHANGED <<req, sr, output, gen, calls, path, log, resp>>

\* if len(audio.shape) > 1: audio = audio.flatten() (server.py:85-86)
FlattenStep(r) ==
  /\ pc[r] = "flatten"
  /\ IF ~HasShape(audio[r])
     THEN Throw(r, "shape") /\ UNCHANGED audio
     ELSE IF NeedsFlatten(audio[r])
          THEN IF audio[r].flatOk
               THEN /\ audio' = [audio EXCEPT ![r] = Flatten(@)]
                    /\ pc' = [pc EXCEPT ![r] = "encode"]
                    /\ UNCHANGED exc
               ELSE Throw(r, "flatten") /\ UNCHANGED audio
          ELSE /\ pc' = [pc EXCEPT ![r] = "encode"]
               /\ UNCHANGED <<audio, exc>>
  /\ model' = HandlerModel(model)
  /\ UNCHANGED <<lifePc, device, loadFailed>>
  /\ UNCHANGED <<req, sr, output, gen, calls, path, log, resp>>

\* except Exception as e: print, audio = np.zeros(sr, ...) (server.py:88-91);
\* an exception raised by np.zeros leaves the handler
Except(r) ==
  /\ pc[r] = "except"
  /\ log' = [log EXCEPT ![r] = Append(@, ErrorLine(exc[r]))]
  /\ path' = [path EXCEPT ![r] = "fallback"]
  /\ IF ZerosRaises(LocalSr(r))
     THEN /\ exc' = [exc EXCEPT ![r] = "np.zeros"]
          /\ pc' = [pc EXCEPT ![r] = "raise"]
          /\ UNCHANGED audio
     ELSE /\ audio' = [audio EXCEPT ![r] = FallbackAudio(LocalSr(r))]
          /\ exc' = [exc EXCEPT ![r] = "none"]
          /\ pc' = [pc EXCEPT ![r] = "encode"]
  /\ model' = HandlerModel(model)
  /\ UNCHANGED <<lifePc, device, loadFailed>>
  /\ UNCHANGED <<req, sr, output, gen, calls, resp>>

\* sf.write into the BytesIO and the Response (server.py:94-98);
\* an exception raised by sf.write leaves the handler
Encode(r) ==
  /\ pc[r] = "encode"
  /\ IF SfWriteRaises(audio[r], LocalSr(r))
     THEN /\ exc' = [exc EXCEPT ![r] = "sf.write"]
          /\ pc' = [pc EXCEPT ![r] = "raise"]
          /\ UNCHANGED resp
     ELSE /\ resp' = [resp EXCEPT ![r] = OkResponse(WavOf(audio[r], LocalSr(r)))]
          /\ pc' = [pc EXCEPT ![r] = "return"]
          /\ UNCHANGED exc
  /\ model' = HandlerModel(model)
  /\ UNCHANGED <<lifePc, device, loadFailed>>
  /\ UNCHANGED <<req, sr, audio, output, gen, calls, path, log>>

\* the invocation is over: its locals are gone
Release(r) ==
  /\ pc' = [pc EXCEPT ![r] = "idle"]
  /\ req' = [req EXCEPT ![r] = NoReq]
  /\ sr' = [sr EXCEPT ![r] = NoRate]
  /\ audio' = [audio EXCEPT ![r] = NoAudio]
  /\ output' = [output EXCEPT ![r] = NoOutput]
  /\ exc' = [exc EXCEPT ![r] = "none"]
  /\ gen' = [gen EXCEPT ![r] = NoGen]
  /\ calls' = [calls EXCEPT ![r] = 0]
  /\ path' = [path EXCEPT ![r] = "none"]
  /\ log' = [log EXCEPT ![r] = <<>>]
  /\ resp' = [resp EXCEPT ![r] = NoResponse]
  /\ model' = HandlerModel(model)
  /\ UNCHANGED <<lifePc, device, loadFailed>>

\* the Response has been handed to the framework (server.py:98)
Return(r) == pc[r] = "return" /\ Release(r)

\* the exception has been handed to the framework
Propagate(r) == pc[r] = "raise" /\ Release(r)

(* --------------------------- specifications ---------------------------- *)

\* the handler is a coroutine without an await: on the event loop one
\* invocation runs from its first statement to its last before the next starts
Next ==
  \/ Startup
  \/ \E r \in Reqs :
       \/ Quiet /\ Arrive(r, Texts, SpeakerFields)
       \/ Mock(r)
       \/ Announce(r)
       \/ GenerateCall(r, Gens)
       \/ Unpack(r)
       \/ HostTransfer(r)
       \/ FlattenStep(r)
       \/ Except(r)
       \/ Encode(r)
       \/ Return(r)
       \/ Propagate(r)

Spec == Init /\ [][Next]_vars

\* the statements of different invocations interleave freely: every schedule
\* a deployment with several threads serving one process could produce
NextConc ==
  \/ Startup
  \/ \E r \in Reqs :
       \/ Arrive(r, ConcTexts, ConcFields)
       \/ Mock(r)
       \/ Announce(r)
       \/ GenerateCall(r, ConcGens)
       \/ Unpack(r)
       \/ HostTransfer(r)
       \/ FlattenStep(r)
       \/ Except(r)
       \/ Encode(r)
       \/ Return(r)
       \/ Propagate(r)

SpecConc == Init /\ [][NextConc]_vars

(* ------------------------------- claims -------------------------------- *)

\* slot r holds the buffer and the rate that sf.write is about to be given
AtEncoder(r) == pc[r] = "encode"

\* slot r has passed the branch on `model`
Handled(r) == pc[r] \in {"encode", "return", "raise"}

\* C1: whenever a step of the normal path raised, the buffer handed to the
\* encoder is 24000 zero samples and the rate handed to it is 24000, whatever
\* rate the model's output had already supplied.
C1_FallbackIsDefaultSilence ==
  \A r \in Reqs :
    (AtEncoder(r) /\ path[r] = "fallback") =>
      /\ audio[r].shape = <<DefaultRate>>
      /\ \A k \in 1..Len(audio[r].data) : audio[r].data[k] = 0
      /\ LocalSr(r) = IntRate(DefaultRate)

\* C2: when a step of startup initialization failed, then once the service
\* serves, the model reference is unset and every request takes the degraded
\* path.
C2_LoadFailureLeavesModelUnset ==
  (loadFailed /\ lifePc = "serving") =>
    /\ model = ModelNone
    /\ \A r \in Reqs : path[r] \in {"none", "degraded"}

\* C3: no exception leaves generate_speech, and what it returns is a response
\* with status 200 and media type audio/wav.
C3_HandlerNeverRaises ==
  \A r \in Reqs :
    /\ pc[r] # "raise"
    /\ pc[r] = "return" => (resp[r].status = 200 /\ resp[r].media = "audio/wav")

\* C4: a request handled while the model is not loaded takes the degraded
\* path, never calls model.generate, and encodes a mono buffer of exactly
\* 24000 zero samples at 24000 Hz.
C4_DegradedSilence ==
  \A r \in Reqs :
    /\ (ModelMissing(model) /\ Handled(r)) => path[r] = "degraded"
    /\ (path[r] = "degraded" /\ Handled(r)) =>
         /\ calls[r] = 0
         /\ gen[r] = NoGen
         /\ audio[r].shape = <<DefaultRate>>
         /\ Len(audio[r].data) = DefaultRate
         /\ \A k \in 1..DefaultRate : audio[r].data[k] = 0
         /\ LocalSr(r) = IntRate(DefaultRate)
         /\ pc[r] # "raise"
         /\ pc[r] = "return" =>
              resp[r].wav =
                [channels |-> 1, samplerate |-> DefaultRate, frames |-> DefaultRate]

\* a degraded request with empty text has been answered
C4_Witness ==
  \E r \in Reqs :
    path[r] = "degraded" /\ pc[r] = "return" /\ req[r].text = ""

\* C5: on the normal path with no step raising, the rate given to the encoder
\* is the model's rate when model.generate returned a pair and the default
\* 24000 when it returned a bare audio value.
C5_RateFromModelOrDefault ==
  \A r \in Reqs :
    (path[r] = "normal" /\ pc[r] \in {"encode", "return"}) =>
      /\ gen[r].output.form = "pair" => LocalSr(r) = gen[r].output.rate
      /\ gen[r].output.form = "bare" => LocalSr(r) = IntRate(DefaultRate)
      /\ pc[r] = "return" => resp[r].wav.samplerate = LocalSr(r).v

\* a request whose model output was a pair carrying a rate other than the
\* default has been answered
C5_Witness ==
  \E r \in Reqs :
    /\ path[r] = "normal" /\ pc[r] = "return"
    /\ gen[r].output.form = "pair"
    /\ gen[r].output.rate = IntRate(MaxRate)

\* the buffer at the encoder has exactly one axis
C6_OneDimensional ==
  \A r \in Reqs : AtEncoder(r) => Len(audio[r].shape) = 1

\* when the model's audio has several axes and no step raised, the buffer at
\* the encoder holds every element once, in row-major order
C6_RowMajor ==
  \A r \in Reqs :
    (AtEncoder(r) /\ path[r] = "normal" /\ Len(gen[r].output.audio.shape) > 1) =>
      LET src == gen[r].output.audio
      IN  /\ audio[r].shape = <<Size(src.shape)>>
          /\ Len(audio[r].data) = Size(src.shape)
          /\ \A idx \in IndexSet(src.shape) :
               audio[r].data[1 + OffsetC(idx, src.shape)] = Stamp(idx)

\* C6: on every path the buffer that reaches the encoder is one-dimensional,
\* and audio with several dimensions arrives as its row-major flattening with
\* exactly the product of its dimensions as the number of samples.
C6_EncoderInputIsFlat == C6_OneDimensional /\ C6_RowMajor

\* C7: the model reference is written only by startup initialization, which
\* runs once and is over before a request is handled; no step of
\* generate_speech changes it, so it keeps the value it had when startup
\* finished.
C7_ModelWrittenOnlyByStartup ==
  [][/\ model' # model => (lifePc \in {"load", "cuda"} /\ Quiet)
     /\ lifePc = "serving" => (lifePc' = "serving" /\ model' = model)
     /\ (\E r \in Reqs : pc'[r] # "idle") => lifePc = "serving"]_vars

\* with a model loaded, one request has been answered after its generate call
\* raised while another request is being handled
C7_Witness ==
  /\ lifePc = "serving"
  /\ ~ModelMissing(model)
  /\ \E r, q \in Reqs :
       /\ r # q
       /\ path[r] = "fallback" /\ pc[r] = "return"
       /\ pc[q] = "encode"

\* the rate a request running alone hands to the encoder
SoloRate(m, g) ==
  IF ModelMissing(m) \/ g.raises \/ ~IsTuple(g.output) \/ UnpackRaises(g.output)
  THEN IntRate(DefaultRate)
  ELSE g.output.rate

\* a step of the normal path of a request running alone raises
SoloFails(g) ==
  \/ g.raises
  \/ UnpackRaises(g.output)
  \/ g.output.audio.kind = "object"
  \/ (g.output.audio.kind = "tensor" /\ ~g.output.audio.cpuOk)
  \/ (Len(g.output.audio.shape) > 1 /\ ~g.output.audio.flatOk)

\* the elements of an array in row-major order
RowMajor(a) ==
  [k \in 1..Size(a.shape) |->
     LET idx == CHOOSE i \in IndexSet(a.shape) : OffsetC(i, a.shape) = k - 1
     IN  Element(a, idx)]

\* the samples a request running alone hands to the encoder
SoloSamples(m, g) ==
  IF ModelMissing(m) THEN [k \in 1..DefaultRate |-> 0]
  ELSE IF SoloFails(g) THEN [k \in 1..SoloRate(m, g).v |-> 0]
  ELSE IF Len(g.output.audio.shape) = 0 THEN g.output.audio.data
  ELSE RowMajor(g.output.audio)

\* C8: with requests in flight at the same time, the buffer and the rate a
\* request hands to the encoder are those it would hand over running alone:
\* they depend on the model's readiness and on what its own generate call
\* returned or raised, and two requests with the same outcome hand over the
\* same buffer and rate.
C8_RequestsAreIndependent ==
  \A r \in Reqs :
    AtEncoder(r) =>
      /\ LocalSr(r) = SoloRate(model, gen[r])
      /\ audio[r].data = SoloSamples(model, gen[r])
      /\ \A q \in Reqs :
           (AtEncoder(q) /\ gen[q] = gen[r]) =>
             (audio[q] = audio[r] /\ LocalSr(q) = LocalSr(r))

\* two requests are at the encoder together, one on the fallback path after
\* its own model output supplied a rate, one on the normal path
C8_Witness ==
  \E r, q \in Reqs :
    /\ r # q
    /\ AtEncoder(r) /\ AtEncoder(q)
    /\ path[r] = "fallback" /\ gen[r].output.form = "pair"
    /\ path[q] = "normal" /\ gen[q].output.form = "bare"

\* C9 as stated: every invocation writes one diagnostic line, and that line
\* identifies the path taken and carries the request's text and voice.
C9_OneLineWithTextAndVoice ==
  \A r \in Reqs :
    Handled(r) =>
      /\ Len(log[r]) = 1
      /\ log[r][1].text = <<req[r].text>>
      /\ log[r][1].speaker = <<req[r].speaker>>

\* C9 as amended: every invocation writes a first line that tells whether the
\* model was absent or generation was attempted and carries the request's
\* text; that line carries the voice only when the model is loaded; when a
\* step of generation raises, a second line with the exception and neither
\* text nor voice follows, and no path writes more.
C9_DiagnosticLines ==
  \A r \in Reqs :
    Handled(r) =>
      /\ path[r] \in {"degraded", "normal", "fallback"}
      /\ path[r] = "degraded" =>
           log[r] = <<[tag |-> "Mocking (Model not loaded)",
                       text |-> <<req[r].text>>, speaker |-> <<>>,
                       error |-> <<>>]>>
      /\ path[r] # "degraded" =>
           log[r][1] = [tag |-> "Generating", text |-> <<req[r].text>>,
                        speaker |-> <<req[r].speaker>>, error |-> <<>>]
      /\ path[r] = "normal" => Len(log[r]) = 1
      /\ path[r] = "fallback" =>
           /\ Len(log[r]) = 2
           /\ log[r][2].tag = "Generation Error"
           /\ log[r][2].text = <<>>
           /\ log[r][2].speaker = <<>>
           /\ Len(log[r][2].error) = 1

\* a request whose generation raised is at the encoder with its two lines
C9_Witness ==
  \E r \in Reqs :
    /\ AtEncoder(r) /\ path[r] = "fallback" /\ Len(log[r]) = 2
    /\ req[r].speaker = "Emma"

\* C10: whenever the handler substitutes silence, the silent buffer has as
\* many samples as the rate handed to the encoder with it, and model.generate
\* has been called at most once for the request.
C10_SilenceLastsOneSecond ==
  \A r \in Reqs :
    /\ calls[r] <= 1
    /\ (path[r] \in {"degraded", "fallback"} /\ pc[r] \in {"encode", "return"}) =>
         /\ LocalSr(r).kind = "int"
         /\ audio[r].shape = <<LocalSr(r).v>>
         /\ Len(audio[r].data) = LocalSr(r).v
         /\ \A k \in 1..Len(audio[r].data) : audio[r].data[k] = 0
         /\ pc[r] = "return" => resp[r].wav.frames = resp[r].wav.samplerate

\* a request fell back to silence after its model output had supplied a rate
\* other than the default
C10_Witness ==
  \E r \in Reqs :
    /\ path[r] = "fallback" /\ pc[r] = "return"
    /\ calls[r] = 1
    /\ LocalSr(r) = IntRate(MaxRate)

====
